---------------------------- MODULE Spec2Model ----------------------------
(***************************************************************************)
(* A model of utils/kdztools/unkdz.py (class KDZFileTools): the KDZ       *)
(* container parser and extractor.                                        *)
(*                                                                         *)
(* The input file is a byte stream.  Its leading bytes (magic prefix,     *)
(* header records, marker bytes, gap) are explicit; every byte after them *)
(* is a payload byte.  A bytes object returned by infile.read() is kept   *)
(* either as the sequence of its bytes (header reads) or, for payload     *)
(* copies, as the run [from, n] of stream positions it was read from, so  *)
(* that an output file is the sequence of runs written to it.             *)
(*                                                                         *)
(* kdz.py (the base class KDZFile: _dz_struct, _dz_format_dict,           *)
(* _dz_collapsibles, _dz_length, _dz_header) is not among the sources; the *)
(* record layout below follows the description of the Header Record.      *)
(* TLC's integers are 32 bits wide, so the integer fields of a record are *)
(* FieldBytes bytes wide instead of 8, and the initial value of dataStart, *)
(* 1 << 63 in the source (the top bit of the 64-bit field), is the top    *)
(* bit of the model's field width.                                        *)
(*                                                                         *)
(* Messages written to stdout and stderr (among them the warning for a    *)
(* null byte inside a name) and the creation of the output directory are  *)
(* not part of the state.  A copy loop is followed for at most MaxReads   *)
(* chunk reads.                                                            *)
(***************************************************************************)
EXTENDS Integers, Sequences, FiniteSets, TLC

VARIABLES
    args,        \* parsed command line: [mode, extractID]
    kdzfile,     \* the file named by -f: [exists, head, fill, size]
    infile,      \* self.infile: the read cursor, or None
    kdz_length,  \* self.kdz_length
    header_type, \* self.header_type
    partitions,  \* KDZFileTools.partitions, the class-level list
    dataStart,   \* self.dataStart
    headerEnd,   \* self.headerEnd
    hasExtra,    \* self.hasExtra (FALSE while the attribute is absent)
    partList,    \* self.partList
    last,        \* getPartitions: local last
    cont,        \* getPartitions: local cont
    nextchar,    \* getPartitions: local nextchar
    scanned,     \* number of records this object has decoded
    index,       \* extractPartition: the index being extracted
    reads,       \* extractPartition: chunk reads done by the copy loop
    files,       \* output directory: payload file name -> runs written
    extras,      \* kdz_extras.bin: <<>> while absent, else <<runs written>>
    params,      \* .kdz.params: <<>> while absent, else <<what was written>>
    tools,       \* KDZFileTools objects created in this process
    pc,          \* position of the process
    exitStatus   \* process exit status, or None while running

vars == <<args, kdzfile, infile, kdz_length, header_type, partitions,
          dataStart, headerEnd, hasExtra, partList, last, cont, nextchar,
          scanned, index, reads, files, extras, params, tools, pc, exitStatus>>

\* Python's None, for the integer-valued attributes
None == -1

Min(a, b) == IF a <= b THEN a ELSE b

(***************************************************************************)
(* Record layout (kdz.py, not among the sources).                          *)
(***************************************************************************)
NameLen == 2
FieldBytes == 2
ReservedBytes == 1

\* _dz_length: the size of one packed header record
DzLength == NameLen + FieldBytes + FieldBytes + ReservedBytes

RECURSIVE LittleEndian(_)
\* struct '<' integer field: little-endian base-256
LittleEndian(bs) ==
    IF bs = <<>> THEN 0 ELSE Head(bs) + 256 * LittleEndian(Tail(bs))

\* _dz_struct.unpack zipped with _dz_format_dict.keys()
Unpack(buf) ==
    [name     |-> SubSeq(buf, 1, NameLen),
     length   |-> LittleEndian(SubSeq(buf, NameLen + 1, NameLen + FieldBytes)),
     offset   |-> LittleEndian(SubSeq(buf, NameLen + FieldBytes + 1,
                                          NameLen + 2 * FieldBytes)),
     reserved |-> LittleEndian(SubSeq(buf, NameLen + 2 * FieldBytes + 1,
                                          DzLength))]

\* kdz.KDZFile._dz_header
DzHeader == <<40, 5, 0, 0, 36, 56, 34, 37>>

(***************************************************************************)
(* The stream: open(kdzfile, "rb").                                        *)
(***************************************************************************)
ByteAt(f, p) == IF p < Len(f.head) THEN f.head[p + 1] ELSE f.fill

\* number of bytes read(n) returns at cursor pos (n >= 0)
ReadLen(f, pos, n) == IF pos >= f.size THEN 0 ELSE Min(n, f.size - pos)

\* infile.read(n) as a bytes object
ReadBytes(f, pos, n) == [i \in 1..ReadLen(f, pos, n) |-> ByteAt(f, pos + i - 1)]

\* infile.read(n) as a run of stream positions; read(-1) reads to the end
ReadRun(f, pos, n) ==
    [from |-> pos, n |-> IF n = -1 THEN ReadLen(f, pos, f.size) ELSE ReadLen(f, pos, n)]

\* outfile.write(run): an output file is the sequence of maximal runs written
WriteRun(content, run) ==
    IF run.n = 0 THEN content
    ELSE IF content # <<>> /\ content[Len(content)].from + content[Len(content)].n = run.from
         THEN [content EXCEPT ![Len(content)].n = @ + run.n]
         ELSE Append(content, run)

RECURSIVE Tell(_)
\* outfile.tell(): bytes written so far
Tell(content) ==
    IF content = <<>> THEN 0 ELSE Head(content).n + Tell(Tail(content))


(***************************************************************************)
(* Program constants.                                                      *)
(***************************************************************************)
\* extractPartition: chunkSize
chunkSize == 1024
\* saveExtra: min(4096, total)
extraChunk == 4096

\* kdz_header: the recognized 8-byte prefixes and their header_type
kdz_header ==
    {[magic |-> <<40, 5, 0, 0, 52, 49, 37, 128>>, type |-> 0],
     [magic |-> <<24, 5, 0, 0, 50, 121, 68, 80>>, type |-> 1],
     [magic |-> DzHeader, type |-> 2]}

\* getPartitions: self.dataStart = 1 << 63, the top bit of the offset field
DataStartInit == 2 ^ (8 * FieldBytes - 1)

(***************************************************************************)
(* Inputs: the containers and command lines the model is run on.           *)
(***************************************************************************)
MaxRecords == 2   \* header records written into a container
GapRoom == 3      \* bytes left between the longest header region and the payloads
Stride == 3000    \* distance between two payload offsets
MaxReads == 5     \* chunk reads of one copy loop that the model follows
MaxTools == 2     \* KDZFileTools objects created in one process

\* first payload offset of a well-formed container
DataBase == 8 + MaxRecords * (DzLength + 1) + GapRoom

Lengths == {0, 500, chunkSize - 1, chunkSize, 2 * chunkSize + 500}
Layouts == {"asc", "desc", "tie", "tight", "low", "high"}
Markers == {"next", "last", "end"}

\* the offset field of record i of n under a layout: payloads after the gap
\* in scan order, in reverse order, or all at one offset; payloads that start
\* right after n records with one marker byte each; a last record that points
\* into the header region; offsets with the top bit of the field set
OffsetOf(layout, i, n) ==
    CASE layout = "asc"  -> DataBase + (i - 1) * Stride
      [] layout = "desc" -> DataBase + (n - i) * Stride
      [] layout = "tie"  -> DataBase
      [] layout = "tight" -> 8 + n * (DzLength + 1) + (i - 1) * Stride
      [] layout = "low"  -> IF i = n THEN 0 ELSE DataBase + (i - 1) * Stride
      [] layout = "high" -> DataStartInit + (n - i) + 1

\* an integer as k little-endian bytes
ToBytes(v, k) == [i \in 1..k |-> (v \div (256 ^ (i - 1))) % 256]

Zeros(k) == [i \in 1..k |-> 0]

\* the packed form of a header record
Pack(r) ==
    r.name \o Zeros(NameLen - Len(r.name)) \o ToBytes(r.length, FieldBytes)
      \o ToBytes(r.offset, FieldBytes) \o ToBytes(r.reserved, ReservedBytes)

MarkerByte(m) == CASE m = "last" -> <<3>> [] m = "end" -> <<0>> [] m = "next" -> <<>>

\* record i of a container description
RecordOf(b, i) ==
    [name |-> <<96 + i>>, length |-> b.len, offset |-> OffsetOf(b.layout, i, b.n),
     reserved |-> IF b.bad = i THEN 1 ELSE 0]

RECURSIVE HeaderBytes(_, _)
HeaderBytes(b, i) ==
    IF i > b.n THEN <<>>
    ELSE Pack(RecordOf(b, i)) \o MarkerByte(b.markers[i]) \o HeaderBytes(b, i + 1)

\* the bytes between the header bytes and DataBase: zeros, or zeros with one
\* non-zero byte two bytes before DataBase
GapBytes(k, gap) ==
    [i \in 1..k |-> IF gap = "dirty" /\ i = k - 1 THEN 1 ELSE 0]

FileOf(magic, b) ==
    LET hdr == magic \o HeaderBytes(b, 1)
    IN  [exists |-> TRUE,
         head |-> hdr \o GapBytes(DataBase - Len(hdr), b.gap),
         fill |-> 170,
         size |-> IF b.size = "full" THEN DataBase + (MaxRecords + 1) * Stride
                  ELSE DataBase + 200]

Bodies ==
    UNION {[n : {n}, layout : Layouts, len : Lengths, markers : [1..n -> Markers],
            bad : 0..n, gap : {"zero", "dirty"}, size : {"full", "cut"}]
           : n \in 1..MaxRecords}

DefaultBody ==
    [n |-> 1, layout |-> "asc", len |-> chunkSize, markers |-> <<"end">>,
     bad |-> 0, gap |-> "zero", size |-> "full"]

V1Magic == <<24, 5, 0, 0, 50, 121, 68, 80>>

\* prefixes that are not recognized: wrong in the last byte, wrong after the
\* common first four bytes
BadMagics == {<<40, 5, 0, 0, 52, 49, 37, 129>>, <<40, 5, 0, 0, 0, 0, 0, 0>>}

\* a file shorter than the prefix
ShortFile == [exists |-> TRUE, head |-> <<40, 5, 0, 0>>, fill |-> 170, size |-> 4]

\* a path that cannot be opened
NoFile == [exists |-> FALSE, head |-> <<>>, fill |-> 0, size |-> 0]

Files ==
    {FileOf(V1Magic, b) : b \in Bodies}
      \cup {FileOf(h.magic, DefaultBody) : h \in kdz_header}
      \cup {FileOf(m, DefaultBody) : m \in BadMagics}
      \cup {ShortFile, NoFile}

\* parseArgs: exactly one of -l, -x, -s ID
Args ==
    {[mode |-> "list", extractID |-> None], [mode |-> "all", extractID |-> None]}
      \cup {[mode |-> "single", extractID |-> i] : i \in 0..MaxRecords}

(***************************************************************************)
(* The state after KDZFileTools() and parseArgs.                           *)
(***************************************************************************)
Init ==
    /\ args \in Args
    /\ kdzfile \in Files
    /\ infile = None
    /\ kdz_length = None
    /\ header_type = None
    /\ partitions = <<>>
    /\ dataStart = None
    /\ headerEnd = None
    /\ hasExtra = FALSE
    /\ partList = <<>>
    /\ last = FALSE
    /\ cont = FALSE
    /\ nextchar = <<>>
    /\ scanned = 0
    /\ index = None
    /\ reads = 0
    /\ files = <<>>
    /\ extras = <<>>
    /\ params = <<>>
    /\ tools = 1
    /\ pc = "openFile"
    /\ exitStatus = None

(***************************************************************************)
(* main: openFile.                                                         *)
(***************************************************************************)
\* verify_header in self.kdz_header
Recognized(verify_header) == \E h \in kdz_header : h.magic = verify_header

\* mutant: the lookup compares the first four bytes only
HeaderTypeByHalf(verify_header) ==
    (CHOOSE h \in kdz_header : SubSeq(h.magic, 1, 4) = SubSeq(verify_header, 1, 4)).type

\* self.kdz_header[verify_header]
HeaderType(verify_header) == (CHOOSE h \in kdz_header : h.magic = verify_header).type

OpenFile ==
    /\ pc = "openFile"
    /\ IF ~kdzfile.exists
       THEN \* IOError: sys.exit(1)
            /\ pc' = "exited"
            /\ exitStatus' = 1
            /\ UNCHANGED <<infile, kdz_length, header_type>>
       ELSE LET verify_header == ReadBytes(kdzfile, 0, 8)
            IN  /\ infile' = Len(verify_header)
                /\ kdz_length' = kdzfile.size
                /\ IF Recognized(verify_header)
                   THEN /\ header_type' = HeaderType(verify_header)
                        /\ pc' = "getPartitions"
                        /\ UNCHANGED exitStatus
                   ELSE /\ pc' = "exited"
                        /\ exitStatus' = 1
                        /\ UNCHANGED header_type
    /\ UNCHANGED <<args, kdzfile, partitions, dataStart, headerEnd, hasExtra,
                   partList, last, cont, nextchar, scanned, index, reads,
                   files, extras, params, tools>>

(***************************************************************************)
(* getPartitions and readKDZHeader.                                        *)
(***************************************************************************)
GetPartitionsBegin ==
    /\ pc = "getPartitions"
    /\ last' = FALSE
    /\ cont' = TRUE
    /\ dataStart' = DataStartInit
    /\ pc' = "scan"
    /\ UNCHANGED <<args, kdzfile, infile, kdz_length, header_type, partitions,
                   headerEnd, hasExtra, partList, nextchar, scanned, index,
                   reads, files, extras, params, tools, exitStatus>>

RECURSIVE RStrip(_)
\* value.rstrip(b'\x00')
RStrip(bs) ==
    IF bs # <<>> /\ bs[Len(bs)] = 0 THEN RStrip(SubSeq(bs, 1, Len(bs) - 1)) ELSE bs

\* mutant: the integer collapsibles are not checked
ReadKDZHeaderUnchecked(buf) ==
    LET kdz_item == Unpack(buf)
    IN  [item |-> [kdz_item EXCEPT !.name = RStrip(kdz_item.name)], exit |-> FALSE]

\* readKDZHeader on a full buffer: the item, and whether sys.exit(1) was called
\* for a non-zero integer collapsible
ReadKDZHeader(buf) ==
    LET kdz_item == Unpack(buf)
    IN  [item |-> [kdz_item EXCEPT !.name = RStrip(kdz_item.name)],
         exit |-> kdz_item.reserved # 0]

\* if kdz_sub['offset'] < self.dataStart: self.dataStart = kdz_sub['offset']
UpdateDataStart(offset, ds) == IF offset < ds THEN offset ELSE ds

\* mutant: the byte 0x03 ends the loop at once
AfterRecordStopAtLast(nc, wasLast, pos) ==
    IF nc = <<3>> \/ nc = <<0>> THEN [last |-> nc = <<3>>, cont |-> FALSE, pos |-> pos]
    ELSE [last |-> wasLast, cont |-> ~wasLast, pos |-> pos - 1]

\* the end of one loop iteration: cont = not last, then the branch on the byte
\* read after the record; pos is the cursor after that read
AfterRecord(nc, wasLast, pos) ==
    IF nc = <<3>> THEN [last |-> TRUE, cont |-> ~wasLast, pos |-> pos]
    ELSE IF nc = <<0>> THEN [last |-> wasLast, cont |-> FALSE, pos |-> pos]
    ELSE [last |-> wasLast, cont |-> ~wasLast, pos |-> pos - 1]

ScanRecord ==
    /\ pc = "scan"
    /\ LET buf == ReadBytes(kdzfile, infile, DzLength)
           hdr == ReadKDZHeader(buf)
           nc  == ReadBytes(kdzfile, infile + DzLength, 1)
           nxt == AfterRecord(nc, last, infile + DzLength + Len(nc))
       IN  IF Len(buf) # DzLength
           THEN \* struct.error, not caught
                /\ infile' = infile + Len(buf)
                /\ pc' = "crashed"
                /\ exitStatus' = 1
                /\ UNCHANGED <<partitions, dataStart, last, cont, nextchar, scanned>>
           ELSE IF hdr.exit
           THEN /\ infile' = infile + DzLength
                /\ pc' = "exited"
                /\ exitStatus' = 1
                /\ UNCHANGED <<partitions, dataStart, last, cont, nextchar, scanned>>
           ELSE /\ partitions' = Append(partitions, hdr.item)
                /\ scanned' = scanned + 1
                /\ dataStart' = UpdateDataStart(hdr.item.offset, dataStart)
                /\ nextchar' = nc
                /\ last' = nxt.last
                /\ cont' = nxt.cont
                /\ infile' = nxt.pos
                /\ pc' = IF nxt.cont THEN "scan" ELSE "reconcile"
                /\ UNCHANGED exitStatus
    /\ UNCHANGED <<args, kdzfile, kdz_length, header_type, headerEnd, hasExtra,
                   partList, index, reads, files, extras, params, tools>>

\* mutant: the operands of the subtraction are exchanged
GapReversed(ds, he) == he - ds - 1

\* gap = self.dataStart - self.headerEnd - 1
Gap(ds, he) == ds - he - 1

\* len(buf.lstrip(b'\x00')) > 0 for buf = the n bytes read at from
HasNonZero(f, from, n) == \E p \in from..(from + n - 1) : ByteAt(f, p) # 0

\* [(x['name'], x['length']) for x in self.partitions]
PartListOf(ps) == [i \in 1..Len(ps) |-> <<ps[i].name, ps[i].length>>]

GetPartitionsEnd ==
    /\ pc = "reconcile"
    /\ headerEnd' = infile
    /\ LET gap == Gap(dataStart, infile)
           n   == ReadLen(kdzfile, infile, gap)
       IN  IF gap > 0
           THEN /\ infile' = infile + n
                /\ hasExtra' = (hasExtra \/ HasNonZero(kdzfile, infile, n))
           ELSE UNCHANGED <<infile, hasExtra>>
    /\ partList' = PartListOf(partitions)
    /\ pc' = "dispatch"
    /\ UNCHANGED <<args, kdzfile, kdz_length, header_type, partitions, dataStart,
                   last, cont, nextchar, scanned, index, reads, files, extras,
                   params, tools, exitStatus>>

(***************************************************************************)
(* main: dispatch on the command line.                                     *)
(***************************************************************************)
\* name.decode("utf8") succeeds (the inputs hold no multi-byte sequences, so
\* a byte above 127 is an invalid start byte)
DecodeOk(name) == \A i \in 1..Len(name) : name[i] < 128

\* open(os.path.join(self.outdir, name), 'wb') succeeds: the path is not the
\* directory itself and holds no null byte
OpenOk(name) == name # <<>> /\ \A i \in 1..Len(name) : name[i] # 0

CmdListPartitions ==
    /\ pc = "dispatch"
    /\ args.mode = "list"
    /\ IF \A i \in 1..Len(partList) : DecodeOk(partList[i][1])
       THEN pc' = "done" /\ exitStatus' = 0
       ELSE pc' = "crashed" /\ exitStatus' = 1
    /\ UNCHANGED <<args, kdzfile, infile, kdz_length, header_type, partitions,
                   dataStart, headerEnd, hasExtra, partList, last, cont,
                   nextchar, scanned, index, reads, files, extras, params, tools>>

\* 0 <= args.extractID < len(self.partList)
InRange(id, pl) == 0 <= id /\ id < Len(pl)

SegmentOutOfRange ==
    /\ pc = "dispatch"
    /\ args.mode = "single"
    /\ ~InRange(args.extractID, partList)
    /\ pc' = "done"
    /\ exitStatus' = 0
    /\ UNCHANGED <<args, kdzfile, infile, kdz_length, header_type, partitions,
                   dataStart, headerEnd, hasExtra, partList, last, cont,
                   nextchar, scanned, index, reads, files, extras, params, tools>>

CmdExtractSingle ==
    /\ pc = "dispatch"
    /\ args.mode = "single"
    /\ InRange(args.extractID, partList)
    /\ index' = args.extractID
    /\ pc' = "extractPartition"
    /\ UNCHANGED <<args, kdzfile, infile, kdz_length, header_type, partitions,
                   dataStart, headerEnd, hasExtra, partList, last, cont,
                   nextchar, scanned, reads, files, extras, params, tools,
                   exitStatus>>

CmdExtractAll ==
    /\ pc = "dispatch"
    /\ args.mode = "all"
    /\ index' = 0
    /\ pc' = "extractPartition"
    /\ UNCHANGED <<args, kdzfile, infile, kdz_length, header_type, partitions,
                   dataStart, headerEnd, hasExtra, partList, last, cont,
                   nextchar, scanned, reads, files, extras, params, tools,
                   exitStatus>>

(***************************************************************************)
(* extractPartition.                                                       *)
(***************************************************************************)
\* the caller's name.decode, then the seek and the open of the output file
ExtractPartitionOpen ==
    /\ pc = "extractPartition"
    /\ LET currentPartition == partitions[index + 1]
       IN  IF ~DecodeOk(partList[index + 1][1])
           THEN \* UnicodeDecodeError in the caller
                /\ pc' = "crashed"
                /\ exitStatus' = 1
                /\ UNCHANGED <<infile, files>>
           ELSE IF ~OpenOk(currentPartition.name)
           THEN /\ infile' = currentPartition.offset
                /\ pc' = "crashed"
                /\ exitStatus' = 1
                /\ UNCHANGED files
           ELSE /\ infile' = currentPartition.offset
                /\ files' = (currentPartition.name :> <<>>) @@ files
                /\ pc' = "copy"
                /\ UNCHANGED exitStatus
    /\ reads' = 0
    /\ UNCHANGED <<args, kdzfile, kdz_length, header_type, partitions, dataStart,
                   headerEnd, hasExtra, partList, last, cont, nextchar, scanned,
                   index, extras, params, tools>>

\* one iteration of the copy loop on an output file holding content, with the
\* cursor at pos: the write of a chunk, the test, and the final write
CopyChunk(f, content, pos, length) ==
    LET r1  == ReadRun(f, pos, chunkSize)
        c1  == WriteRun(content, r1)
        p1  == pos + r1.n
        rem == length - Tell(c1)
    IN  IF Tell(c1) + chunkSize >= length
        THEN IF rem < -1
             THEN \* read(): ValueError, read length must be non-negative or -1
                  [content |-> c1, pos |-> p1, state |-> "ValueError"]
             ELSE LET r2 == ReadRun(f, p1, rem)
                  IN  [content |-> WriteRun(c1, r2), pos |-> p1 + r2.n,
                       state |-> "break"]
        ELSE [content |-> c1, pos |-> p1, state |-> "loop"]

CopyLoop ==
    /\ pc = "copy"
    /\ reads < MaxReads
    /\ LET currentPartition == partitions[index + 1]
           step == CopyChunk(kdzfile, files[currentPartition.name], infile,
                             currentPartition.length)
       IN  /\ files' = [files EXCEPT ![currentPartition.name] = step.content]
           /\ infile' = step.pos
           /\ reads' = reads + 1
           /\ IF step.state = "ValueError"
              THEN pc' = "crashed" /\ exitStatus' = 1 /\ UNCHANGED index
              ELSE IF step.state = "loop"
              THEN UNCHANGED <<pc, exitStatus, index>>
              ELSE IF args.mode = "single"
              THEN pc' = "done" /\ exitStatus' = 0 /\ UNCHANGED index
              ELSE IF index + 1 < Len(partList)
              THEN pc' = "extractPartition" /\ index' = index + 1
                   /\ UNCHANGED exitStatus
              ELSE pc' = "saveExtra" /\ UNCHANGED <<exitStatus, index>>
    /\ UNCHANGED <<args, kdzfile, kdz_length, header_type, partitions, dataStart,
                   headerEnd, hasExtra, partList, last, cont, nextchar, scanned,
                   extras, params, tools>>

(***************************************************************************)
(* saveExtra and saveParams.                                               *)
(***************************************************************************)
RECURSIVE SaveExtraLoop(_, _, _, _)
\* while total > 0: count = min(4096, total); write(read(count)); total -= count
SaveExtraLoop(f, pos, total, content) ==
    IF total > 0
    THEN LET count == Min(extraChunk, total)
             r     == ReadRun(f, pos, count)
         IN  SaveExtraLoop(f, pos + r.n, total - count, WriteRun(content, r))
    ELSE [content |-> content, pos |-> pos]

\* total = self.dataStart - self.headerEnd
ExtraTotal(ds, he) == ds - he

SaveExtra ==
    /\ pc = "saveExtra"
    /\ IF ~hasExtra
       THEN UNCHANGED <<extras, infile>>
       ELSE LET w == SaveExtraLoop(kdzfile, headerEnd,
                                   ExtraTotal(dataStart, headerEnd), <<>>)
            IN  /\ extras' = <<w.content>>
                /\ infile' = w.pos
    /\ pc' = "saveParams"
    /\ UNCHANGED <<args, kdzfile, kdz_length, header_type, partitions, dataStart,
                   headerEnd, hasExtra, partList, last, cont, nextchar, scanned,
                   index, reads, files, params, tools, exitStatus>>

\* [{'name', 'data', 'header'} for i, p in enumerate(self.partitions)]
OutOf(ps) ==
    [i \in 1..Len(ps) |-> [name |-> ps[i].name, data |-> ps[i].offset, header |-> i - 1]]

RECURSIVE InsertByData(_, _)
InsertByData(sorted, x) ==
    IF sorted = <<>> THEN <<x>>
    ELSE IF x.data < Head(sorted).data THEN <<x>> \o sorted
    ELSE <<Head(sorted)>> \o InsertByData(Tail(sorted), x)

\* mutant: the list is written in scan order
Unsorted(out) == out

RECURSIVE SortByData(_)
\* out.sort(key=lambda p: p['data']): stable, ascending
SortByData(out) ==
    IF out = <<>> THEN <<>>
    ELSE InsertByData(SortByData(SubSeq(out, 1, Len(out) - 1)), out[Len(out)])

\* the payload{i} / payload{i}head pairs, i = position - 1
PayloadLines(ps) ==
    LET out == SortByData(OutOf(ps))
    IN  [i \in 1..Len(out) |-> [payload |-> out[i].name, head |-> out[i].header]]

SaveParams ==
    /\ pc = "saveParams"
    /\ params' = <<[version |-> header_type, dataStart |-> dataStart,
                    payloads |-> PayloadLines(partitions)]>>
    /\ pc' = "done"
    /\ exitStatus' = 0
    /\ UNCHANGED <<args, kdzfile, infile, kdz_length, header_type, partitions,
                   dataStart, headerEnd, hasExtra, partList, last, cont,
                   nextchar, scanned, index, reads, files, extras, tools>>

(***************************************************************************)
(* One run of main.                                                        *)
(***************************************************************************)
Next ==
    \/ OpenFile
    \/ GetPartitionsBegin
    \/ ScanRecord
    \/ GetPartitionsEnd
    \/ CmdListPartitions
    \/ SegmentOutOfRange
    \/ CmdExtractSingle
    \/ CmdExtractAll
    \/ ExtractPartitionOpen
    \/ CopyLoop
    \/ SaveExtra
    \/ SaveParams

Spec == Init /\ [][Next]_vars

(***************************************************************************)
(* Several containers in one process: each gets a KDZFileTools object of   *)
(* its own, opened and scanned; the class attribute partitions is shared.  *)
(***************************************************************************)
ReuseFiles ==
    {FileOf(V1Magic, b) :
        b \in {x \in Bodies : /\ x.len = chunkSize /\ x.bad = 0
                              /\ x.gap = "zero" /\ x.size = "full"}}

\* kdztools = KDZFileTools() for the next container: the instance attributes
\* are those of a fresh object, the class-level list is the same list
NewTool ==
    /\ pc = "dispatch"
    /\ tools < MaxTools
    /\ tools' = tools + 1
    /\ kdzfile' \in ReuseFiles
    /\ infile' = None
    /\ kdz_length' = None
    /\ header_type' = None
    /\ dataStart' = None
    /\ headerEnd' = None
    /\ hasExtra' = FALSE
    /\ partList' = <<>>
    /\ last' = FALSE
    /\ cont' = FALSE
    /\ nextchar' = <<>>
    /\ scanned' = 0
    /\ pc' = "openFile"
    /\ UNCHANGED <<args, partitions, index, reads, files, extras, params, exitStatus>>

InitReuse ==
    /\ Init
    /\ args.mode = "list"
    /\ kdzfile \in ReuseFiles

NextReuse ==
    \/ OpenFile
    \/ GetPartitionsBegin
    \/ ScanRecord
    \/ GetPartitionsEnd
    \/ NewTool

SpecReuse == InitReuse /\ [][NextReuse]_vars

(***************************************************************************)
(* Properties.                                                             *)
(***************************************************************************)
\* getPartitions has returned
Scanned == headerEnd # None

\* no payload file, no extras file, no manifest
NoOutput == files = <<>> /\ extras = <<>> /\ params = <<>>

\* extractPartition(i0) has returned
Finished(i0) ==
    \/ args.mode = "single" /\ index = i0 /\ pc = "done"
    \/ args.mode = "all" /\ index > i0
    \/ args.mode = "all" /\ index = i0 /\ pc \in {"saveExtra", "saveParams", "done"}

\* the source bytes [offset, offset + length) as an output file
ExactRun(p) == IF p.length = 0 THEN <<>> ELSE <<[from |-> p.offset, n |-> p.length]>>

\* every byte of content comes from [offset, offset + length)
Within(content, p) ==
    \A k \in 1..Len(content) :
        content[k].from >= p.offset /\ content[k].from + content[k].n <= p.offset + p.length

\* C1: for every record whose span [offset, offset + length) lies inside the
\* stream, extractPartition leaves an output file holding exactly the bytes of
\* that span, and at no point has it copied a byte outside the span.
C1_ExtractExact ==
    \A i0 \in 0..(Len(partitions) - 1) :
        LET p == partitions[i0 + 1]
        IN  kdzfile.size >= p.offset + p.length =>
              /\ Finished(i0) => files[p.name] = ExactRun(p)
              /\ (index = i0 /\ pc \in {"copy", "crashed"} /\ p.name \in DOMAIN files)
                    => Within(files[p.name], p)

\* C2 (as stated): after a decoded record, the byte 0x03 or 0x00 ends the loop
\* with that record as the final entry, and any other byte continues it.
C2_MarkerEndsLoop ==
    (pc \in {"scan", "reconcile"} /\ scanned > 0) =>
        /\ nextchar = <<3>> => pc = "reconcile"
        /\ nextchar = <<0>> => pc = "reconcile"
        /\ (nextchar # <<3>> /\ nextchar # <<0>>) => pc = "scan"

\* C2 (amended): for the byte b that follows a decoded record in the stream:
\* b = 0x00 ends the loop with the cursor after b; b = 0x03 leaves the cursor
\* after b and the loop decodes one more record, which is the final one
\* whatever follows it; any other b is un-read (the cursor returns to it) and
\* the loop continues unless the record just decoded was the one announced by
\* an earlier 0x03.
C2_MarkerStep ==
    [][(pc = "scan" /\ scanned' = scanned + 1) =>
          LET at == infile + DzLength
              b  == ByteAt(kdzfile, at)
              on == IF last THEN "reconcile" ELSE "scan"
          IN  at < kdzfile.size =>
                /\ b = 0 => (pc' = "reconcile" /\ infile' = at + 1)
                /\ b = 3 => (pc' = on /\ infile' = at + 1 /\ last')
                /\ b \notin {0, 3} => (pc' = on /\ infile' = at /\ last' = last)
                /\ Len(partitions') = Len(partitions) + 1]_vars

\* C2 witness: 0x03 was read after the first record and the loop goes on
C2_Witness == pc = "scan" /\ scanned = 1 /\ nextchar = <<3>> /\ last

\* C3: once getPartitions has returned, dataStart is the least offset of the
\* records in the Partition List.
C3_DataStartIsMin ==
    Scanned =>
        /\ \E i \in 1..Len(partitions) : partitions[i].offset = dataStart
        /\ \A i \in 1..Len(partitions) : dataStart <= partitions[i].offset

\* the record at the cursor decodes with a non-zero reserved field
BadRecordAtCursor ==
    /\ ReadLen(kdzfile, infile, DzLength) = DzLength
    /\ Unpack(ReadBytes(kdzfile, infile, DzLength)).reserved # 0

\* C4: decoding a record with a non-zero reserved field ends the run with a
\* non-zero exit status and nothing written; no record with a non-zero reserved
\* field is ever recorded, and no output exists until the scan has completed.
C4_ReservedAborts ==
    /\ [][(pc = "scan" /\ BadRecordAtCursor) =>
             (pc' = "exited" /\ exitStatus' # 0 /\ exitStatus' # None /\ NoOutput')]_vars
    /\ [](\A i \in 1..Len(partitions) : partitions[i].reserved = 0)
    /\ [](~Scanned => NoOutput)
    /\ [](pc = "exited" => ~ENABLED Next)

\* C4 witness: the second record of an extract-all run was the bad one
C4_Witness ==
    /\ pc = "exited" /\ args.mode = "all" /\ scanned = 1
    /\ Unpack(ReadBytes(kdzfile, infile - DzLength, DzLength)).reserved # 0

\* C5: once openFile has run on an existing file, either the first 8 bytes are
\* one of the three prefixes, the variant is the one mapped to it and
\* openFile left the cursor at byte 8, or the run has ended with a non-zero
\* exit status, no record decoded and nothing written.
C5_MagicSelectsVariant ==
    (pc # "openFile" /\ kdzfile.exists) =>
        LET prefix == ReadBytes(kdzfile, 0, 8)
        IN  IF \E h \in kdz_header : h.magic = prefix
            THEN /\ \A h \in kdz_header : h.magic = prefix => header_type = h.type
                 /\ pc = "getPartitions" => infile = 8
            ELSE /\ pc = "exited" /\ exitStatus # 0 /\ exitStatus # None
                 /\ scanned = 0 /\ partitions = <<>> /\ NoOutput

\* C5 witness: a recognized prefix selected variant 2 and the cursor is at 8
C5_Witness == pc = "getPartitions" /\ header_type = 2 /\ infile = 8

\* C6: the manifest holds one pair per record; its head values are a
\* permutation of the scan positions 0..n-1, listed in ascending order of the
\* offset of the record at that position, and each payload name is the name of
\* the record at its head position.
C6_ManifestOrder ==
    params # <<>> =>
        LET pl == params[1].payloads
            n  == Len(partitions)
        IN  /\ Len(pl) = n
            /\ {pl[i].head : i \in 1..n} = 0..(n - 1)
            /\ \A i \in 1..n : pl[i].payload = partitions[pl[i].head + 1].name
            /\ \A i \in 1..(n - 1) :
                  partitions[pl[i].head + 1].offset <= partitions[pl[i + 1].head + 1].offset

\* C6 witness: a manifest of two records whose offset order is not scan order
C6_Witness ==
    /\ params # <<>>
    /\ Len(params[1].payloads) = 2
    /\ params[1].payloads[1].head = 1
    /\ partitions[1].offset > partitions[2].offset

\* the bytes the reconciler read at headerEnd
GapRun ==
    LET n == ReadLen(kdzfile, headerEnd, dataStart - headerEnd - 1)
    IN  IF n = 0 THEN <<>> ELSE <<[from |-> headerEnd, n |-> n]>>

\* C7: the extras file holds exactly the gap bytes that the reconciler read.
C7_ExtrasAreGap == extras # <<>> => extras[1] = GapRun

\* C8: when a container's scan has completed, the Partition List and the list
\* returned by getPartitions hold the records decoded from that container and
\* no others.
C8_OwnRecordsOnly ==
    pc = "dispatch" => (Len(partitions) = scanned /\ Len(partList) = scanned)

\* C9 (as stated): after a completed scan headerEnd does not exceed dataStart
\* and the gap is not negative.
C9_GapNonNegative ==
    Scanned => (headerEnd <= dataStart /\ dataStart - headerEnd - 1 >= 0)

\* C9 (amended): after a completed scan the gap is not negative whenever every
\* decoded record's offset is greater than headerEnd; the scanner accepts
\* smaller offsets, and a gap of zero or less is treated as no gap: nothing is
\* read past headerEnd and hasExtra is not set.
C9_GapWhenOffsetsPastHeader ==
    Scanned =>
        /\ (\A i \in 1..Len(partitions) : partitions[i].offset > headerEnd)
              => dataStart - headerEnd - 1 >= 0
        /\ dataStart - headerEnd - 1 <= 0
              => (~hasExtra /\ (pc = "dispatch" => infile = headerEnd))

\* C9 witness: a completed scan of a well-formed container with a gap
C9_Witness ==
    /\ pc = "dispatch" /\ scanned = 2
    /\ \A i \in 1..Len(partitions) : partitions[i].offset > headerEnd
    /\ dataStart - headerEnd - 1 > 0
    /\ dataStart < DataStartInit

\* C10: the copy loop of a record needs at most length / chunkSize + 1 chunk
\* reads, and an extraction for which the stream holds fewer than length bytes
\* from offset on does not return normally.
C10_CopyTerminates ==
    \A i0 \in 0..(Len(partitions) - 1) :
        LET p == partitions[i0 + 1]
        IN  /\ (index = i0 /\ pc = "copy") => reads <= p.length \div chunkSize + 1
            /\ ReadLen(kdzfile, p.offset, p.length) < p.length => ~Finished(i0)

=============================================================================
